---- MODULE Spec2Model ----
(***************************************************************************)
(* A model of cryptoapp.py: the interactive loop of main, the candle       *)
(* builder get_crypto_candles, the indicator calculation and the wave scan *)
(* of detect_elliot_waves / identify_wave_pattern, and the interpretation  *)
(* of interpret_elliot_waves.                                              *)
(*                                                                         *)
(* Numbers.  A float is modelled as an exact fraction [n |-> ..., d |-> ..]*)
(* with d >= 0.  d = 0 stands for the two non-finite floats the program    *)
(* can produce: n = 0 is NaN (0/0, the missing value of pandas) and n > 0  *)
(* is +inf (x/0 with x > 0).  Every comparison with NaN is false, as in    *)
(* IEEE 754.  Rounding is not modelled.                                    *)
(*                                                                         *)
(* Indices.  Python positions are kept (0-based); At(s, i) reads s[i].     *)
(***************************************************************************)
EXTENDS Integers, Sequences, FiniteSets, TLC

VARIABLES
    pc,                 \* position of the program
    raw_input,          \* the line typed at the prompt of main, as characters
    coin,               \* main: coin = input(...).lower().strip()
    requests,           \* the HTTP requests get_crypto_candles made, in order
    responses,          \* history: what each of these requests was answered
    data,               \* get_crypto_candles: data['prices'] of the response used
    df,                 \* the candle / indicator frame, a sequence of rows
    series,             \* identify_wave_pattern: the scanned values
    i,                  \* identify_wave_pattern: the loop index
    current_wave_type,  \* identify_wave_pattern: "None", "impulse", "corrective"
    wave_count,         \* identify_wave_pattern: the run counter
    waves,              \* identify_wave_pattern: the dict that is returned
    analysis,           \* interpret_elliot_waves: counts, trend, recommendation
    error,              \* what the handlers of main last reported
    last_run            \* history: the scan state the last finished scan ended in

vars == <<pc, raw_input, coin, requests, responses, data, df, series, i, current_wave_type,
          wave_count, waves, analysis, error, last_run>>

-----------------------------------------------------------------------------
(* Bounds of the model *)

\* longest scanned series drawn from the full set of changes
MaxShort == 3
\* longest scanned series drawn from the three changes of RunChanges
MaxLong == 8

-----------------------------------------------------------------------------
(* Floats as fractions *)

Frac(a, b) == [n |-> a, d |-> b]
NaN == Frac(0, 0)
IsNaN(x) == x.d = 0 /\ x.n = 0
IsFinite(x) == x.d > 0
AbsInt(k) == IF k < 0 THEN -k ELSE k

\* abs(x)
Abs(x) == Frac(AbsInt(x.n), x.d)

\* x > y for finite x, y; False when either is NaN
Gt(x, y) == /\ IsFinite(x)
            /\ IsFinite(y)
            /\ x.n * y.d > y.n * x.d

\* x * k for an integer k
Times(x, k) == Frac(x.n * k, x.d)

Zero == Frac(0, 1)

\* s[i] with Python's 0-based index
At(s, k) == s[k + 1]

-----------------------------------------------------------------------------
(* identify_wave_pattern *)

\* thresholds = {'minor': 0.02, 'significant': 0.05, 'major': 0.10}
thresholds == [minor |-> Frac(2, 100),
               significant |-> Frac(5, 100),
               major |-> Frac(10, 100)]

\* the dict created at the start of identify_wave_pattern
EmptyWaves == [impulse_waves |-> <<>>,
               corrective_waves |-> <<>>,
               wave_details |-> <<>>,
               wave_labels |-> <<>>]

\* faulty variant of WaveType: only a rise above 5% is an impulse
WaveTypeBySize(change) ==
    IF Gt(change, Frac(5, 100)) THEN "impulse" ELSE "corrective"

\* 'impulse' if change > 0 else 'corrective'
WaveType(change) == IF Gt(change, Zero) THEN "impulse" ELSE "corrective"

\* faulty variant of WaveMagnitude: a change at a threshold is upgraded
WaveMagnitudeNonStrict(change) ==
    IF ~Gt(thresholds.major, Abs(change)) THEN "major"
    ELSE IF ~Gt(thresholds.significant, Abs(change)) THEN "significant"
    ELSE "minor"

\* wave_magnitude: 'minor', overwritten by 'significant', overwritten by 'major'
WaveMagnitude(change) ==
    LET m0 == "minor"
        m1 == IF Gt(Abs(change), thresholds.significant) THEN "significant" ELSE m0
        m2 == IF Gt(Abs(change), thresholds.major) THEN "major" ELSE m1
    IN  m2

\* str(k) of an f-string, for the counts the model reaches
Str(k) == CASE k = 0 -> "0" [] k = 1 -> "1" [] k = 2 -> "2" [] k = 3 -> "3"
            [] k = 4 -> "4" [] k = 5 -> "5" [] k = 6 -> "6" [] k = 7 -> "7"
            [] k = 8 -> "8" [] k = 9 -> "9" [] OTHER -> "10+"

\* chr(k) for the code points the program can ask for
Chr(k) == CASE k = 64 -> "@" [] k = 65 -> "A" [] k = 66 -> "B" [] k = 67 -> "C"
            [] k = 68 -> "D" [] OTHER -> "?"

\* A label is the pair <<word, suffix>> of the f-string f'{word} {suffix}';
\* <<"Impulse", "3">> is 'Impulse 3', <<"Correction", "Ext">> is 'Correction Ext'.

\* faulty variant of ImpulseLabel: the label freezes one segment late
ImpulseLabelLate(k) == IF k <= 6 THEN <<"Impulse", Str(k)>> ELSE <<"Impulse", "Ext">>

\* f'Impulse {wave_count}' if wave_count <= 5 else 'Impulse Ext'
ImpulseLabel(k) == IF k <= 5 THEN <<"Impulse", Str(k)>> ELSE <<"Impulse", "Ext">>

\* f'Correction {chr(64 + wave_count)}' if wave_count <= 3 else 'Correction Ext'
CorrectionLabel(k) ==
    IF k <= 3 THEN <<"Correction", Chr(64 + k)>> ELSE <<"Correction", "Ext">>

WaveLabel(wave_type, k) ==
    IF wave_type = "impulse" THEN ImpulseLabel(k) ELSE CorrectionLabel(k)

\* faulty variant of NextWaveCount: a type switch does not reset the counter
NextWaveCountKeep(cur_type, count, wave_type) == count + 1

\* wave_count after the branch on current_wave_type != wave_type
NextWaveCount(cur_type, count, wave_type) ==
    IF cur_type # wave_type THEN 1 ELSE count + 1

\* the dict wave_details of one emitted segment
Segment(change, wave_type, k, idx) ==
    [type |-> wave_type,
     magnitude |-> WaveMagnitude(change),
     start_index |-> idx - 1,
     end_index |-> idx,
     percentage_change |-> Times(change, 100),
     label |-> WaveLabel(wave_type, k)]

\* faulty variant of Append4: an impulse is appended to both sub-lists
Append4Both(w, seg) ==
    [wave_details |-> Append(w.wave_details, seg),
     wave_labels |-> Append(w.wave_labels, seg.label),
     impulse_waves |-> IF seg.type = "impulse"
                       THEN Append(w.impulse_waves, seg) ELSE w.impulse_waves,
     corrective_waves |-> Append(w.corrective_waves, seg)]

\* the appends at the end of the loop body
Append4(w, seg) ==
    [wave_details |-> Append(w.wave_details, seg),
     wave_labels |-> Append(w.wave_labels, seg.label),
     impulse_waves |-> IF seg.type = "impulse"
                       THEN Append(w.impulse_waves, seg) ELSE w.impulse_waves,
     corrective_waves |-> IF seg.type = "impulse"
                          THEN w.corrective_waves
                          ELSE Append(w.corrective_waves, seg)]

\* faulty variant of Emits: whatever is not below the threshold is emitted
EmitsNonStrict(change) == ~Gt(thresholds.minor, Abs(change))

\* if abs(change) > thresholds['minor']
Emits(change) == Gt(Abs(change), thresholds.minor)

\* One iteration of `for i in range(1, len(series))`.
ScanStep ==
    /\ pc = "scan"
    /\ i < Len(series)
    /\ LET change == At(series, i)
       IN  IF Emits(change)
           THEN LET wave_type == WaveType(change)
                    k == NextWaveCount(current_wave_type, wave_count, wave_type)
                IN  /\ wave_count' = k
                    /\ current_wave_type' = wave_type
                    /\ waves' = Append4(waves, Segment(change, wave_type, k, i))
           ELSE UNCHANGED <<wave_count, current_wave_type, waves>>
    /\ i' = i + 1
    /\ UNCHANGED <<pc, raw_input, coin, requests, responses, data, df, series, analysis,
                   error, last_run>>

-----------------------------------------------------------------------------
(* Text typed at the prompt: a string is the sequence of its characters *)

QUIT == <<"q", "u", "i", "t">>
VELO == <<"v", "e", "l", "o">>
VELERO == <<"v", "e", "l", "e", "r", "o">>
VELODROME == <<"v", "e", "l", "o", "d", "r", "o", "m", "e">>
VELODROME_FINANCE == <<"v", "e", "l", "o", "d", "r", "o", "m", "e", "-",
                       "f", "i", "n", "a", "n", "c", "e">>
ETH == <<"e", "t", "h">>

\* what the user may type: 'quit', ' QuIt ', 'qu it', 'Velo', ' eth'
RawInputs == {QUIT,
              <<" ", "Q", "u", "I", "t", " ">>,
              <<"q", "u", " ", "i", "t">>,
              <<"V", "e", "l", "o">>,
              <<" ", "e", "t", "h">>}

\* str.lower() on one character
LowerChar(c) == CASE c = "Q" -> "q" [] c = "U" -> "u" [] c = "I" -> "i"
                  [] c = "T" -> "t" [] c = "V" -> "v" [] c = "E" -> "e"
                  [] c = "L" -> "l" [] c = "O" -> "o" [] c = "H" -> "h"
                  [] OTHER -> c

\* str.lower()
Lower(s) == [k \in 1..Len(s) |-> LowerChar(s[k])]

IsSpace(c) == c = " "

\* str.strip(): drop the leading and the trailing whitespace
Strip(s) ==
    LET keep == {k \in 1..Len(s) : ~IsSpace(s[k])}
    IN  IF keep = {} THEN <<>>
        ELSE LET lo == CHOOSE k \in keep : \A m \in keep : k <= m
                 hi == CHOOSE k \in keep : \A m \in keep : k >= m
             IN  SubSeq(s, lo, hi)

-----------------------------------------------------------------------------
(* get_crypto_candles *)

\* most price points a provider response holds
MaxPoints == 4

\* the close prices a provider response is drawn from
Closes == {100, 101, 106, 112}

\* the 'prices' lists of a response: up to MaxPoints pairs [timestamp, close];
\* the timestamp of the k-th pair is k
PriceLists ==
    UNION {[1..len -> Closes] : len \in 0..MaxPoints}

\* What requests.get(...).json() of the market_chart endpoint can bring:
\* an exception, a dict without 'prices', a dict with a 'prices' list.
ChartResponses ==
    {[kind |-> "raise", prices |-> <<>>], [kind |-> "no_prices", prices |-> <<>>]}
    \union {[kind |-> "prices", prices |-> p] : p \in PriceLists}

\* What the search endpoint can bring: an exception, no coin, a first coin.
SearchResponses ==
    {[kind |-> "raise", coins |-> <<>>],
     [kind |-> "coins", coins |-> <<>>],
     [kind |-> "coins", coins |-> <<ETH>>]}

\* placeholders for a request that is never made
NoChart == [kind |-> "unused", prices |-> <<>>]
NoSearch == [kind |-> "unused", coins |-> <<>>]

\* 'prices' not in data or len(data['prices']) == 0
PricesMissing(resp) == resp.kind # "prices" \/ Len(resp.prices) = 0

\* search_data.get('coins') and len(search_data['coins']) > 0
HasCoins(search_data) == Len(search_data.coins) > 0

\* the larger / smaller of two floats
MaxF(x, y) == IF Gt(y, x) THEN y ELSE x
MinF(x, y) == IF Gt(x, y) THEN y ELSE x

RECURSIVE RollingMax(_, _, _)
\* max of close over positions lo..hi (0-based) of the raw frame
RollingMax(closes, lo, hi) ==
    IF lo = hi THEN At(closes, hi)
    ELSE MaxF(RollingMax(closes, lo, hi - 1), At(closes, hi))

RECURSIVE RollingMin(_, _, _)
RollingMin(closes, lo, hi) ==
    IF lo = hi THEN At(closes, hi)
    ELSE MinF(RollingMin(closes, lo, hi - 1), At(closes, hi))

\* rolling(window=4, ...)
CandleWindow == 4

\* faulty variant of WindowStart: the window holds one row less
WindowStartShort(k, window) ==
    IF k - (window - 2) > 0 THEN k - (window - 2) ELSE 0

\* the first position of the window that ends at position k
WindowStart(k, window) == IF k - (window - 1) > 0 THEN k - (window - 1) ELSE 0

\* The frame before dropna: one row per price point, open = close.shift(1),
\* high / low = rolling(window=4, min_periods=1).max() / .min() of close.
RawFrame(prices) ==
    LET closes == [k \in 1..Len(prices) |-> Frac(prices[k], 1)]
    IN  [k \in 1..Len(prices) |->
            [timestamp |-> k - 1,
             open |-> IF k = 1 THEN NaN ELSE closes[k - 1],
             high |-> RollingMax(closes, WindowStart(k - 1, CandleWindow), k - 1),
             low |-> RollingMin(closes, WindowStart(k - 1, CandleWindow), k - 1),
             close |-> closes[k]]]

\* faulty variant of HasNoNaN: a missing open does not count
HasNoNaNClose(row) == ~IsNaN(row.close)

\* whether dropna keeps the row: no column holds a missing value
HasNoNaN(row) ==
    ~IsNaN(row.open) /\ ~IsNaN(row.high) /\ ~IsNaN(row.low) /\ ~IsNaN(row.close)

\* faulty variant of DropNa: the row without an open is kept
DropNaKeepAll(rows) == rows

RECURSIVE DropNa(_)
\* df.dropna(): the rows without a missing value, in order
DropNa(rows) ==
    IF rows = <<>> THEN <<>>
    ELSE IF HasNoNaN(Head(rows)) THEN <<Head(rows)>> \o DropNa(Tail(rows))
    ELSE DropNa(Tail(rows))

\* the least number of rows get_crypto_candles accepts, before and after dropna
MinRows == 2

\* the class of the exception raised inside the try block: requests.get or
\* .json() raise a RequestException, the three raise statements a
\* CryptoAnalysisError
InnerClass(why) ==
    IF why = "request failed" THEN "RequestException" ELSE "CryptoAnalysisError"

\* except Exception as e: raise CryptoAnalysisError(...) -- every class that
\* derives from Exception leaves get_crypto_candles as CryptoAnalysisError
Rewrap(class) ==
    IF class \in {"RequestException", "CryptoAnalysisError"}
    THEN "CryptoAnalysisError" ELSE class

\* coin_mapping.get(coin, coin)
CoinMapping(c) ==
    IF c \in {VELODROME, VELO, VELERO} THEN VELODROME_FINANCE ELSE c

\* faulty variant of Failure: the message names the mapped identifier
FailureMappedCoin(original_coin, why, reqs, prices) ==
    [ok |-> FALSE,
     df |-> <<>>,
     requests |-> reqs,
     prices |-> prices,
     exception |-> Rewrap(InnerClass(why)),
     message |-> [text |-> "Error fetching data for",
                  coin |-> CoinMapping(original_coin),
                  cause |-> why]]

\* An exception raised inside the try block, caught by `except Exception` and
\* raised again as
\* CryptoAnalysisError(f"Error fetching data for {original_coin}: {str(e)}")
Failure(original_coin, why, reqs, prices) ==
    [ok |-> FALSE,
     df |-> <<>>,
     requests |-> reqs,
     prices |-> prices,
     exception |-> Rewrap(InnerClass(why)),
     message |-> [text |-> "Error fetching data for", coin |-> original_coin,
                  cause |-> why]]

\* faulty variant of FrameOrFailure: the rows are not counted after dropna
FrameOrFailureNoRecheck(original_coin, prices, reqs) ==
    IF Len(prices) < MinRows
    THEN Failure(original_coin, "Insufficient data points", reqs, prices)
    ELSE [ok |-> TRUE, df |-> DropNa(RawFrame(prices)), requests |-> reqs,
          prices |-> prices, exception |-> "none",
          message |-> [text |-> "", coin |-> <<>>, cause |-> ""]]

\* from the DataFrame construction to the return
FrameOrFailure(original_coin, prices, reqs) ==
    IF Len(prices) < MinRows
    THEN Failure(original_coin, "Insufficient data points", reqs, prices)
    ELSE LET rows == DropNa(RawFrame(prices))
         IN  IF Len(rows) < MinRows
             THEN Failure(original_coin, "Insufficient processed data points", reqs,
                          prices)
             ELSE [ok |-> TRUE, df |-> rows, requests |-> reqs, prices |-> prices,
                   exception |-> "none",
                   message |-> [text |-> "", coin |-> <<>>, cause |-> ""]]

ChartRequest(id) == [endpoint |-> "market_chart", id |-> id]
SearchRequest(query) == [endpoint |-> "search", id |-> query]

\* faulty variant of GetCryptoCandles: a second search follows a retry that
\* brought no prices
GetCryptoCandlesRetry(coin_arg, r1, s, r2) ==
    LET original_coin == coin_arg
        id1 == CoinMapping(coin_arg)
        q1 == <<ChartRequest(id1)>>
    IN  IF r1.kind = "raise" THEN Failure(original_coin, "request failed", q1, <<>>)
        ELSE IF ~PricesMissing(r1) THEN FrameOrFailure(original_coin, r1.prices, q1)
        ELSE LET q2 == Append(q1, SearchRequest(original_coin))
             IN  IF s.kind = "raise"
                 THEN Failure(original_coin, "request failed", q2, <<>>)
                 ELSE IF HasCoins(s)
                 THEN LET q3 == Append(q2, ChartRequest(s.coins[1]))
                          q4 == Append(q3, SearchRequest(original_coin))
                      IN  IF r2.kind = "raise"
                          THEN Failure(original_coin, "request failed", q3, <<>>)
                          ELSE IF PricesMissing(r2)
                          THEN Failure(original_coin, "Unable to fetch data", q4, <<>>)
                          ELSE FrameOrFailure(original_coin, r2.prices, q3)
                 ELSE Failure(original_coin, "Unable to fetch data", q2, <<>>)

\* get_crypto_candles(coin) when the first chart request is answered r1, the
\* search (if made) s and the second chart request (if made) r2
GetCryptoCandles(coin_arg, r1, s, r2) ==
    LET original_coin == coin_arg
        id1 == CoinMapping(coin_arg)
        q1 == <<ChartRequest(id1)>>
    IN  IF r1.kind = "raise" THEN Failure(original_coin, "request failed", q1, <<>>)
        ELSE IF ~PricesMissing(r1) THEN FrameOrFailure(original_coin, r1.prices, q1)
        ELSE LET q2 == Append(q1, SearchRequest(original_coin))
             IN  IF s.kind = "raise"
                 THEN Failure(original_coin, "request failed", q2, <<>>)
                 ELSE IF HasCoins(s)
                 THEN LET q3 == Append(q2, ChartRequest(s.coins[1]))
                      IN  IF r2.kind = "raise"
                          THEN Failure(original_coin, "request failed", q3, <<>>)
                          ELSE IF PricesMissing(r2)
                          THEN Failure(original_coin, "Unable to fetch data", q3, <<>>)
                          ELSE FrameOrFailure(original_coin, r2.prices, q3)
                 ELSE Failure(original_coin, "Unable to fetch data", q2, <<>>)

\* what a request was answered, as far as the branches of get_crypto_candles
\* tell answers apart
ChartAnswer(resp) ==
    IF resp.kind = "raise" THEN "raise"
    ELSE IF resp.kind = "prices" /\ Len(resp.prices) > 0 THEN "prices"
    ELSE "no_prices"

SearchAnswer(resp) ==
    IF resp.kind = "raise" THEN "raise"
    ELSE IF Len(resp.coins) > 0 THEN "coins"
    ELSE "no_coins"

\* the answers to the first `made` of the requests chart, search, chart
Answers(r1, s, r2, made) ==
    SubSeq(<<ChartAnswer(r1), SearchAnswer(s), ChartAnswer(r2)>>, 1,
           IF made < 3 THEN made ELSE 3)

-----------------------------------------------------------------------------
(* detect_elliot_waves: the indicator columns *)

SignInt(k) == IF k > 0 THEN 1 ELSE IF k < 0 THEN -1 ELSE 0

\* -x
Neg(x) == Frac(-(x.n), x.d)

\* x + y
Add(x, y) ==
    IF IsNaN(x) \/ IsNaN(y) THEN NaN
    ELSE IF ~IsFinite(x) /\ ~IsFinite(y)
    THEN (IF x.n = y.n THEN x ELSE NaN)
    ELSE IF ~IsFinite(x) THEN x
    ELSE IF ~IsFinite(y) THEN y
    ELSE Frac(x.n * y.d + y.n * x.d, x.d * y.d)

\* x - y
Sub(x, y) == Add(x, Neg(y))

\* x / y of numpy floats: x/0 is +-inf, 0/0 is NaN, x/inf is 0
Div(x, y) ==
    IF IsNaN(x) \/ IsNaN(y) THEN NaN
    ELSE IF ~IsFinite(y) THEN (IF IsFinite(x) THEN Zero ELSE NaN)
    ELSE IF ~IsFinite(x) THEN Frac(x.n * (IF y.n < 0 THEN -1 ELSE 1), 0)
    ELSE IF y.n = 0 THEN Frac(SignInt(x.n), 0)
    ELSE IF y.n > 0 THEN Frac(x.n * y.d, x.d * y.n)
    ELSE Frac(-(x.n * y.d), x.d * (-(y.n)))

\* df['close'].diff() at position k of the frame
Diff(rows, k) ==
    IF k = 0 THEN NaN ELSE Sub(At(rows, k).close, At(rows, k - 1).close)

\* df['close'].pct_change() at position k of the frame
PctChange(rows, k) ==
    IF k = 0 THEN NaN
    ELSE Div(Sub(At(rows, k).close, At(rows, k - 1).close), At(rows, k - 1).close)

\* delta.where(delta > 0, 0): a missing delta is replaced by 0 as well
GainOf(delta) == IF Gt(delta, Zero) THEN delta ELSE Zero

\* faulty variant of LossOf: the sign of the fall is kept
LossOfSigned(delta) == IF Gt(Zero, delta) THEN delta ELSE Zero

\* -delta.where(delta < 0, 0)
LossOf(delta) == IF Gt(Zero, delta) THEN Neg(delta) ELSE Zero

\* rolling(window=14)
RsiWindow == 14

RECURSIVE SumGain(_, _, _)
\* sum of GainOf(delta) over positions lo..hi
SumGain(rows, lo, hi) ==
    IF lo > hi THEN Zero
    ELSE Add(SumGain(rows, lo, hi - 1), GainOf(Diff(rows, hi)))

RECURSIVE SumLoss(_, _, _)
SumLoss(rows, lo, hi) ==
    IF lo > hi THEN Zero
    ELSE Add(SumLoss(rows, lo, hi - 1), LossOf(Diff(rows, hi)))

\* whether rolling(window).mean() has a value at position k: min_periods is the
\* window, and the windowed column holds no missing value
WindowFull(k, window) == k + 1 >= window

\* gain: (delta.where(delta > 0, 0)).rolling(window=14).mean()
AvgGain(rows, k) ==
    IF WindowFull(k, RsiWindow)
    THEN Div(SumGain(rows, k - (RsiWindow - 1), k), Frac(RsiWindow, 1))
    ELSE NaN

\* loss: (-delta.where(delta < 0, 0)).rolling(window=14).mean()
AvgLoss(rows, k) ==
    IF WindowFull(k, RsiWindow)
    THEN Div(SumLoss(rows, k - (RsiWindow - 1), k), Frac(RsiWindow, 1))
    ELSE NaN

\* rs = gain / loss; df['rsi'] = 100 - (100 / (1 + rs))
Rsi(rows, k) ==
    LET rs == Div(AvgGain(rows, k), AvgLoss(rows, k))
    IN  Sub(Frac(100, 1), Div(Frac(100, 1), Add(Frac(1, 1), rs)))

\* the frame with the columns price_change, pct_change and rsi
WithIndicators(rows) ==
    [k \in 1..Len(rows) |->
        [timestamp |-> rows[k].timestamp,
         open |-> rows[k].open,
         high |-> rows[k].high,
         low |-> rows[k].low,
         close |-> rows[k].close,
         price_change |-> Diff(rows, k - 1),
         pct_change |-> PctChange(rows, k - 1),
         rsi |-> Rsi(rows, k - 1)]]

\* faulty variant of FreshScanState: the scan goes on from what the last left
StaleScanState ==
    [current_wave_type |-> current_wave_type, wave_count |-> wave_count]

\* current_wave_type = None; wave_count = 0
FreshScanState == [current_wave_type |-> "None", wave_count |-> 0]

-----------------------------------------------------------------------------
(* interpret_elliot_waves *)

\* faulty variant of PriceTrend: the type of the most recent segment decides
PriceTrendLastWave(impulse_waves) ==
    IF Len(waves.wave_details) > 0
       /\ waves.wave_details[Len(waves.wave_details)].type = "impulse"
    THEN "bullish" ELSE "bearish"

\* faulty variant of PriceTrend: the type of the first segment decides
PriceTrendFirstWave(impulse_waves) ==
    IF Len(waves.wave_details) > 0 /\ waves.wave_details[1].type = "impulse"
    THEN "bullish" ELSE "bearish"

\* 'bullish' if impulse_waves and impulse_waves[-1]['type'] == 'impulse'
\* else 'bearish'
PriceTrend(impulse_waves) ==
    IF Len(impulse_waves) > 0 /\ impulse_waves[Len(impulse_waves)].type = "impulse"
    THEN "bullish" ELSE "bearish"

\* faulty variant of get_investment_recommendation: >= in the first test
GetInvestmentRecommendationNonStrict(impulse_waves, corrective_waves, price_trend) ==
    IF Len(impulse_waves) >= Len(corrective_waves) /\ price_trend = "bullish"
    THEN "STRONG BUY"
    ELSE IF Len(impulse_waves) > Len(corrective_waves) THEN "MODERATE BUY"
    ELSE IF Len(corrective_waves) > Len(impulse_waves) THEN "HOLD/CAUTION"
    ELSE "NEUTRAL"

\* get_investment_recommendation, a closure over the two lists and the trend
GetInvestmentRecommendation(impulse_waves, corrective_waves, price_trend) ==
    IF Len(impulse_waves) > Len(corrective_waves) /\ price_trend = "bullish"
    THEN "STRONG BUY"
    ELSE IF Len(impulse_waves) > Len(corrective_waves) THEN "MODERATE BUY"
    ELSE IF Len(corrective_waves) > Len(impulse_waves) THEN "HOLD/CAUTION"
    ELSE "NEUTRAL"

\* wave_interpretation and the recommendation of interpret_elliot_waves
InterpretElliotWaves(w) ==
    LET price_trend == PriceTrend(w.impulse_waves)
    IN  [total_waves |-> Len(w.wave_details),
         impulse_waves_count |-> Len(w.impulse_waves),
         corrective_waves_count |-> Len(w.corrective_waves),
         dominant_trend |-> price_trend,
         recommendation |->
             GetInvestmentRecommendation(w.impulse_waves, w.corrective_waves,
                                         price_trend)]

-----------------------------------------------------------------------------
(* main: the interactive loop *)

NoMessage == [text |-> "", coin |-> <<>>, cause |-> ""]
NoError == [kind |-> "none", at |-> "none", message |-> NoMessage]
NoAnalysis == [total_waves |-> 0,
               impulse_waves_count |-> 0,
               corrective_waves_count |-> 0,
               dominant_trend |-> "",
               recommendation |-> ""]
NoRun == [valid |-> FALSE, current_wave_type |-> "None", wave_count |-> 0]

\* The classes of the exceptions the model raises; all derive from Exception.
\* KeyboardInterrupt and SystemExit, which do not, are not modelled.
ExceptionClasses == {"CryptoAnalysisError", "EOFError", "OSError"}

\* faulty variant of AfterRaise: without the `except Exception` clause
AfterRaiseOnlyCrypto(kind) ==
    IF kind = "CryptoAnalysisError" THEN "prompt" ELSE "crashed"

\* Where control goes when an exception of class `kind` leaves the try block:
\* `except CryptoAnalysisError` and `except Exception` both print and fall to
\* the end of the loop body, so the next iteration prompts again.
AfterRaise(kind) ==
    IF kind = "CryptoAnalysisError" THEN "prompt"
    ELSE IF kind \in ExceptionClasses THEN "prompt"
    ELSE "crashed"

\* an exception of class `kind` raised by step `at`
Raise(kind, at, message) ==
    /\ pc' = AfterRaise(kind)
    /\ error' = [kind |-> kind, at |-> at, message |-> message]

Init ==
    /\ pc = "prompt"
    /\ raw_input = <<>>
    /\ coin = <<>>
    /\ requests = <<>>
    /\ responses = <<>>
    /\ data = <<>>
    /\ df = <<>>
    /\ series = <<>>
    /\ i = 0
    /\ current_wave_type = "None"
    /\ wave_count = 0
    /\ waves = EmptyWaves
    /\ analysis = NoAnalysis
    /\ error = NoError
    /\ last_run = NoRun

\* coin = input(...).lower().strip(); if coin == 'quit': break
\* input() raises EOFError when the input stream has ended.  The names bound
\* by the previous iteration (df, waves, analysis, ...) are all bound again
\* before they are read, so the iteration starts without them;
\* current_wave_type and wave_count keep what the last scan left.
Prompt ==
    /\ pc = "prompt"
    /\ \/ \E typed \in RawInputs :
            LET c == Strip(Lower(typed))
            IN  /\ raw_input' = typed
                /\ coin' = c
                /\ pc' = IF c = QUIT THEN "done" ELSE "fetch"
                /\ error' = NoError
       \/ /\ Raise("EOFError", "prompt", NoMessage)
          /\ UNCHANGED <<raw_input, coin>>
    /\ requests' = <<>>
    /\ responses' = <<>>
    /\ data' = <<>>
    /\ df' = <<>>
    /\ series' = <<>>
    /\ i' = 0
    /\ waves' = EmptyWaves
    /\ analysis' = NoAnalysis
    /\ UNCHANGED <<current_wave_type, wave_count, last_run>>

\* df = get_crypto_candles(coin).  A response is drawn only for a request
\* that is made.
Fetch ==
    /\ pc = "fetch"
    /\ \E r1 \in ChartResponses :
       \E s \in (IF r1.kind # "raise" /\ PricesMissing(r1)
                 THEN SearchResponses ELSE {NoSearch}) :
       \E r2 \in (IF s.kind = "coins" /\ HasCoins(s)
                  THEN ChartResponses ELSE {NoChart}) :
          LET res == GetCryptoCandles(coin, r1, s, r2)
          IN  /\ requests' = res.requests
              /\ responses' = Answers(r1, s, r2, Len(res.requests))
              /\ data' = res.prices
              /\ df' = res.df
              /\ IF res.ok
                 THEN /\ pc' = "detect"
                      /\ UNCHANGED error
                 ELSE Raise(res.exception, "fetch", res.message)
    /\ UNCHANGED <<raw_input, coin, series, i, current_wave_type, wave_count,
                   waves, analysis, last_run>>

\* detect_elliot_waves up to the first iteration of the scan: the indicator
\* columns, then identify_wave_pattern(df['pct_change'].values) creates its
\* dict and sets current_wave_type and wave_count.
DetectIndicators ==
    /\ pc = "detect"
    /\ df' = WithIndicators(df)
    /\ series' = [k \in 1..Len(df) |-> PctChange(df, k - 1)]
    /\ waves' = EmptyWaves
    /\ current_wave_type' = FreshScanState.current_wave_type
    /\ wave_count' = FreshScanState.wave_count
    /\ i' = 1
    /\ pc' = "scan"
    /\ UNCHANGED <<raw_input, coin, requests, responses, data, analysis, error, last_run>>

\* The loop of identify_wave_pattern is over: return waves, then the plot.
\* plt.savefig raises OSError when the file cannot be written.
ScanReturn ==
    /\ pc = "scan"
    /\ i >= Len(series)
    /\ last_run' = [valid |-> TRUE,
                    current_wave_type |-> current_wave_type,
                    wave_count |-> wave_count]
    /\ \/ /\ pc' = "interpret"
          /\ UNCHANGED error
       \/ Raise("OSError", "detect", NoMessage)
    /\ UNCHANGED <<raw_input, coin, requests, responses, data, df, series, i,
                   current_wave_type, wave_count, waves, analysis>>

\* analysis = interpret_elliot_waves(waves, price_df, coin); print(analysis)
\* OSError stands for any Exception raised while the analysis is built or
\* printed.
Interpret ==
    /\ pc = "interpret"
    /\ analysis' = InterpretElliotWaves(waves)
    /\ \/ /\ pc' = "prompt2"
          /\ UNCHANGED error
       \/ Raise("OSError", "interpret", NoMessage)
    /\ UNCHANGED <<raw_input, coin, requests, responses, data, df, series, i,
                   current_wave_type, wave_count, waves, last_run>>

\* view_graph = input(...); the answer only selects what is printed
SecondPrompt ==
    /\ pc = "prompt2"
    /\ \/ /\ pc' = "prompt"
          /\ UNCHANGED error
       \/ Raise("EOFError", "prompt2", NoMessage)
    /\ UNCHANGED <<raw_input, coin, requests, responses, data, df, series, i,
                   current_wave_type, wave_count, waves, analysis, last_run>>

Next ==
    \/ Prompt
    \/ Fetch
    \/ DetectIndicators
    \/ ScanStep
    \/ ScanReturn
    \/ Interpret
    \/ SecondPrompt

Spec == Init /\ [][Next]_vars

-----------------------------------------------------------------------------
(* identify_wave_pattern on its own: any series, scanned from a fresh state *)

\* changes in thousandths: below, at and above each threshold, both signs,
\* zero and the missing value
AllChanges ==
    {NaN} \union {Frac(m, 1000) : m \in {0, 20, -20, 30, -30, 50, -50, 60, -60,
                                          100, -100, 120, -120}}

\* a rise above every threshold, a fall above the minor one, a rise below it
RunChanges == {Frac(120, 1000), Frac(-30, 1000), Frac(10, 1000)}

\* series[0], which the loop never reads
FirstValues == {NaN, Frac(120, 1000)}

\* The series handed to identify_wave_pattern: the empty one, up to MaxShort
\* scanned values of AllChanges after either first value, up to MaxLong
\* scanned values of RunChanges after a missing first value.
InitScan ==
    /\ pc = "scan"
    /\ \/ series = <<>>
       \/ \E f \in FirstValues : \E len \in 0..MaxShort :
             \E r \in [1..len -> AllChanges] : series = <<f>> \o r
       \/ \E len \in 0..MaxLong :
             \E r \in [1..len -> RunChanges] : series = <<NaN>> \o r
    /\ i = 1
    /\ current_wave_type = FreshScanState.current_wave_type
    /\ wave_count = FreshScanState.wave_count
    /\ waves = EmptyWaves
    /\ raw_input = <<>>
    /\ coin = <<>>
    /\ requests = <<>>
    /\ responses = <<>>
    /\ data = <<>>
    /\ df = <<>>
    /\ analysis = NoAnalysis
    /\ error = NoError
    /\ last_run = NoRun

\* the scan, the return of its result and the interpretation of the result
NextScan == ScanStep \/ ScanReturn \/ Interpret

SpecScan == InitScan /\ [][NextScan]_vars

-----------------------------------------------------------------------------
(* get_investment_recommendation on its own: any two lists, any trend *)

\* longest list of segments handed to get_investment_recommendation
MaxCount == 5

SampleSegments ==
    {Segment(Frac(120, 1000), "impulse", 1, 1),
     Segment(Frac(-30, 1000), "corrective", 2, 3)}

\* lists of 0..MaxCount equal segments
SegmentLists ==
    {[k \in 1..len |-> seg] : len \in 0..MaxCount, seg \in SampleSegments}

InitRecommend ==
    /\ pc = "recommend"
    /\ \E imp \in SegmentLists, cor \in SegmentLists :
          waves = [EmptyWaves EXCEPT !.impulse_waves = imp,
                                     !.corrective_waves = cor]
    /\ \E t \in {"bullish", "bearish"} :
          analysis = [NoAnalysis EXCEPT !.dominant_trend = t]
    /\ raw_input = <<>>
    /\ coin = <<>>
    /\ requests = <<>>
    /\ responses = <<>>
    /\ data = <<>>
    /\ df = <<>>
    /\ series = <<>>
    /\ i = 0
    /\ current_wave_type = "None"
    /\ wave_count = 0
    /\ error = NoError
    /\ last_run = NoRun

\* recommendation, reason = get_investment_recommendation()
Recommend ==
    /\ pc = "recommend"
    /\ analysis' = [analysis EXCEPT !.recommendation =
                       GetInvestmentRecommendation(waves.impulse_waves,
                                                   waves.corrective_waves,
                                                   analysis.dominant_trend)]
    /\ pc' = "recommended"
    /\ UNCHANGED <<raw_input, coin, requests, responses, data, df, series, i,
                   current_wave_type, wave_count, waves, error, last_run>>

NextRecommend == Recommend

SpecRecommend == InitRecommend /\ [][NextRecommend]_vars

-----------------------------------------------------------------------------
(* the indicator columns on their own: frames long enough for the RSI *)

\* most price points of a series the RSI is computed for
MaxRsiPoints == 16

RsiLevels == {95, 100, 110}

\* series of RsiWindow..MaxRsiPoints closes with at most two changes of level
RsiPriceList(len, p, q, a, b, c) ==
    [k \in 1..len |-> IF k <= p THEN a ELSE IF k <= q THEN b ELSE c]

InitRsi ==
    /\ pc = "detect"
    /\ \E len \in RsiWindow..MaxRsiPoints, p \in 0..MaxRsiPoints,
          q \in 0..MaxRsiPoints, a \in RsiLevels, b \in RsiLevels,
          c \in RsiLevels :
          /\ p <= q
          /\ q <= len
          /\ data = RsiPriceList(len, p, q, a, b, c)
          /\ df = DropNa(RawFrame(data))
    /\ raw_input = <<>>
    /\ coin = <<>>
    /\ requests = <<>>
    /\ responses = <<>>
    /\ series = <<>>
    /\ i = 0
    /\ current_wave_type = "None"
    /\ wave_count = 0
    /\ waves = EmptyWaves
    /\ analysis = NoAnalysis
    /\ error = NoError
    /\ last_run = NoRun

NextRsi == DetectIndicators

SpecRsi == InitRsi /\ [][NextRsi]_vars

-----------------------------------------------------------------------------
(* the candle derivation on its own: series longer than the window *)

\* most price points of a series the candles are built from
MaxCandlePoints == 6

CandleCloses == {100, 106, 112}

InitCandles ==
    /\ pc = "candles"
    /\ coin = ETH
    /\ requests = <<ChartRequest(ETH)>>
    /\ \E len \in 1..MaxCandlePoints : data \in [1..len -> CandleCloses]
    /\ responses = <<"prices">>
    /\ raw_input = ETH
    /\ df = <<>>
    /\ series = <<>>
    /\ i = 0
    /\ current_wave_type = "None"
    /\ wave_count = 0
    /\ waves = EmptyWaves
    /\ analysis = NoAnalysis
    /\ error = NoError
    /\ last_run = NoRun

\* get_crypto_candles from pd.DataFrame(data['prices'], ...) to its end
BuildCandles ==
    /\ pc = "candles"
    /\ LET res == FrameOrFailure(coin, data, requests)
       IN  /\ df' = res.df
           /\ IF res.ok
              THEN /\ pc' = "detect"
                   /\ UNCHANGED error
              ELSE Raise(res.exception, "fetch", res.message)
    /\ UNCHANGED <<raw_input, coin, requests, responses, data, series, i,
                   current_wave_type, wave_count, waves, analysis, last_run>>

NextCandles == BuildCandles

SpecCandles == InitCandles /\ [][NextCandles]_vars

-----------------------------------------------------------------------------
(* Properties of identify_wave_pattern, checked under SpecScan *)

Last(s) == s[Len(s)]

RECURSIVE RunPos(_, _)
\* position of segment j within its maximal run of same-type segments
RunPos(details, j) ==
    IF j = 1 \/ details[j - 1].type # details[j].type THEN 1
    ELSE 1 + RunPos(details, j - 1)

\* the label the k-th segment of a run is to carry
RunLabel(type, k) ==
    IF type = "impulse"
    THEN CASE k = 1 -> <<"Impulse", "1">> [] k = 2 -> <<"Impulse", "2">>
           [] k = 3 -> <<"Impulse", "3">> [] k = 4 -> <<"Impulse", "4">>
           [] k = 5 -> <<"Impulse", "5">> [] OTHER -> <<"Impulse", "Ext">>
    ELSE CASE k = 1 -> <<"Correction", "A">> [] k = 2 -> <<"Correction", "B">>
           [] k = 3 -> <<"Correction", "C">> [] OTHER -> <<"Correction", "Ext">>

\* C1: in every state of a scan, the k-th segment of each maximal run of
\* same-type segments is labelled 'Impulse k' (k <= 5) or 'Impulse Ext'
\* (k > 5), resp. 'Correction A/B/C' (k <= 3) or 'Correction Ext' (k > 3),
\* whatever number of below-threshold points was skipped inside the run.
C1_RunLabels ==
    \A j \in 1..Len(waves.wave_details) :
        LET seg == waves.wave_details[j]
        IN  seg.label = RunLabel(seg.type, RunPos(waves.wave_details, j))

\* a run of seven impulses with a skipped point inside it, the last two 'Ext'
C1_Witness ==
    /\ pc = "scan"
    /\ Len(waves.wave_details) = 7
    /\ RunPos(waves.wave_details, 7) = 7
    /\ waves.wave_details[6].label = <<"Impulse", "Ext">>
    /\ waves.wave_details[7].label = <<"Impulse", "Ext">>
    /\ waves.wave_details[7].end_index - waves.wave_details[1].end_index > 6

\* C2: a step that emits a segment whose type differs from the type of the
\* segment emitted before it, or that emits the first segment, leaves the run
\* counter at 1 and gives the segment the first label of its type.
C2_TypeSwitchResets ==
    [][(/\ Len(waves'.wave_details) = Len(waves.wave_details) + 1
        /\ \/ Len(waves.wave_details) = 0
           \/ Last(waves.wave_details).type # Last(waves'.wave_details).type)
       => /\ wave_count' = 1
          /\ Last(waves'.wave_details).label =
                (IF Last(waves'.wave_details).type = "impulse"
                 THEN <<"Impulse", "1">> ELSE <<"Correction", "A">>)]_vars

\* a run of two segments followed by a segment of the other type
C2_Witness ==
    /\ Len(waves.wave_details) >= 3
    /\ LET d == waves.wave_details
           m == Len(waves.wave_details)
       IN  /\ d[m].type # d[m - 1].type
           /\ d[m - 1].type = d[m - 2].type
           /\ d[m - 1].label \in {<<"Impulse", "2">>, <<"Correction", "B">>}
           /\ d[m].label \in {<<"Impulse", "1">>, <<"Correction", "A">>}
    /\ wave_count = 1

\* abs(c) in thousandths, for the changes of SpecScan (all over 1000)
Thousandths(c) == AbsInt(c.n)

\* C3: every segment has the highest tier whose threshold abs(change) exceeds
\* strictly: (0.02, 0.05] is minor, (0.05, 0.10] significant, above 0.10
\* major; a scanned change with abs(change) <= 0.02 has no segment.
C3_MagnitudeTiers ==
    /\ \A j \in 1..Len(waves.wave_details) :
          LET seg == waves.wave_details[j]
              c == At(series, seg.end_index)
              a == Thousandths(c)
          IN  /\ c.d = 1000
              /\ a > 20
              /\ seg.magnitude = (IF a > 100 THEN "major"
                                  ELSE IF a > 50 THEN "significant"
                                  ELSE "minor")
    /\ \A k \in 1..(i - 1) :
          (k < Len(series) /\ At(series, k).d = 1000
                           /\ Thousandths(At(series, k)) <= 20)
          => \A j \in 1..Len(waves.wave_details) :
                waves.wave_details[j].end_index # k

\* a scan of 0.02, 0.05, 0.10: no segment, a minor one, a significant one
C3_Witness ==
    /\ pc = "scan"
    /\ i = 4
    /\ Len(series) = 4
    /\ At(series, 1) = Frac(20, 1000)
    /\ At(series, 2) = Frac(-50, 1000)
    /\ At(series, 3) = Frac(100, 1000)
    /\ Len(waves.wave_details) = 2
    /\ waves.wave_details[1].magnitude = "minor"
    /\ waves.wave_details[2].magnitude = "significant"

-----------------------------------------------------------------------------
(* Properties of the pipeline, checked under Spec *)

\* the scan of this iteration has processed its whole series
ScanFinished ==
    \/ pc = "scan" /\ i >= Len(series)
    \/ pc \in {"interpret", "prompt2"}

\* abs((c[k] - c[k-1]) / c[k-1]) > 0.02 for the k-th price point (0-based)
ExceedsMinor(prices, k) ==
    100 * AbsInt(At(prices, k) - At(prices, k - 1)) > 2 * At(prices, k - 1)

\* the 0-based indices from..n-1 of the provider series whose change from the
\* point before exceeds the minor threshold
MovingIndices(prices, from) ==
    {k \in from..(Len(prices) - 1) : ExceedsMinor(prices, k)}

\* the segments are, in order, one per index of `idx`; a segment's end_index
\* is a position of the candle frame, one below the index of the price point
OnePerIndex(details, idx) ==
    /\ Len(details) = Cardinality(idx)
    /\ \A j \in 1..Len(details) : details[j].end_index + 1 \in idx
    /\ \A j \in 1..(Len(details) - 1) :
          details[j].end_index < details[j + 1].end_index

\* C4 as stated: after the scan the wave list holds exactly one segment for
\* every index 1..n-1 of the provider series whose change exceeds 0.02, the
\* change from c[0] to c[1] included.
C4_EveryChangeClassified ==
    ScanFinished => OnePerIndex(waves.wave_details, MovingIndices(data, 1))

\* C4 amended: after the scan the wave list holds exactly one segment for
\* every index 2..n-1 of the provider series whose change exceeds 0.02, in
\* index order, and no other; the change from c[0] to c[1] is never
\* classified (it is the missing first pct_change, which the loop skips).
C4_ChangesFromSecondClassified ==
    ScanFinished => OnePerIndex(waves.wave_details, MovingIndices(data, 2))

\* a finished scan of a series whose first change and whose last change
\* exceed the threshold: only the last has a segment
C4_Witness ==
    /\ ScanFinished
    /\ Len(data) = 4
    /\ ExceedsMinor(data, 1)
    /\ ~ExceedsMinor(data, 2)
    /\ ExceedsMinor(data, 3)
    /\ Len(waves.wave_details) = 1
    /\ waves.wave_details[1].end_index = 2

\* the provider's series of this iteration had exactly k price points
Fetched(k) == Len(data) = k /\ pc # "fetch"

\* C5 as stated: with exactly 2 price points the pipeline raises nothing,
\* produces 1 candle, and the run ends with an empty WaveSet, counts 0 and 0,
\* trend bearish and recommendation NEUTRAL.
C5_TwoPointsComplete ==
    Fetched(2) =>
        /\ error.kind = "none"
        /\ Len(df) = 1
        /\ waves = EmptyWaves
        /\ pc = "prompt2" => /\ analysis.impulse_waves_count = 0
                             /\ analysis.corrective_waves_count = 0
                             /\ analysis.dominant_trend = "bearish"
                             /\ analysis.recommendation = "NEUTRAL"

\* C5 amended: with exactly 2 price points get_crypto_candles raises
\* CryptoAnalysisError (insufficient processed data points: 1 candle is left
\* after dropna); main reports it and prompts again, and no frame, WaveSet or
\* interpretation is produced.  The shortest series that completes has 3
\* points: 2 candles, no RSI value, and when no change exceeds the threshold
\* an empty WaveSet with counts 0 and 0, trend bearish and NEUTRAL.
C5_TwoPointsRejected ==
    /\ Fetched(2) =>
          /\ pc = "prompt"
          /\ error.kind = "CryptoAnalysisError"
          /\ error.at = "fetch"
          /\ error.message.cause = "Insufficient processed data points"
          /\ df = <<>>
          /\ waves = EmptyWaves
          /\ analysis = NoAnalysis
    /\ (Fetched(3) /\ pc = "prompt2") =>
          /\ Len(df) = 2
          /\ \A k \in 1..Len(df) : IsNaN(df[k].rsi)
          /\ MovingIndices(data, 2) = {} =>
                /\ waves = EmptyWaves
                /\ analysis.impulse_waves_count = 0
                /\ analysis.corrective_waves_count = 0
                /\ analysis.dominant_trend = "bearish"
                /\ analysis.recommendation = "NEUTRAL"

\* the error reported for a response of 2 price points
C5_Witness ==
    /\ Fetched(2)
    /\ pc = "prompt"
    /\ error.kind = "CryptoAnalysisError"
    /\ requests # <<>>

\* C6: the recommendation is decided by the two lengths and the trend alone,
\* in this order: more impulses and bullish is STRONG BUY, more impulses
\* otherwise MODERATE BUY, more correctives HOLD/CAUTION, equal NEUTRAL.
C6_RecommendationTable ==
    pc = "recommended" =>
        LET ni == Len(waves.impulse_waves)
            nc == Len(waves.corrective_waves)
            t == analysis.dominant_trend
            r == analysis.recommendation
        IN  /\ (ni > nc /\ t = "bullish") => r = "STRONG BUY"
            /\ (ni > nc /\ t # "bullish") => r = "MODERATE BUY"
            /\ nc > ni => r = "HOLD/CAUTION"
            /\ ni = nc => r = "NEUTRAL"

\* more impulses than correctives under a bearish trend: the second row
C6_Witness ==
    /\ pc = "recommended"
    /\ Len(waves.impulse_waves) > Len(waves.corrective_waves)
    /\ Len(waves.corrective_waves) > 0
    /\ analysis.dominant_trend = "bearish"
    /\ analysis.recommendation = "MODERATE BUY"

\* interpret_elliot_waves has run in this iteration
Interpreted == analysis # NoAnalysis /\ pc \in {"prompt2", "prompt"}

\* C7: the trend is bullish exactly when the scan emitted an impulse segment
\* and bearish exactly when it emitted none, whatever the type of the last
\* segment; every element of impulse_waves is an impulse.
C7_TrendIsAnyImpulse ==
    /\ \A j \in 1..Len(waves.impulse_waves) :
          waves.impulse_waves[j].type = "impulse"
    /\ Interpreted =>
          LET some == \E j \in 1..Len(waves.wave_details) :
                         waves.wave_details[j].type = "impulse"
          IN  /\ analysis.dominant_trend = "bullish" <=> some
              /\ analysis.dominant_trend = "bearish" <=> ~some

\* bullish although the last segment is corrective
C7_Witness ==
    /\ pc = "prompt2"
    /\ analysis.dominant_trend = "bullish"
    /\ Len(waves.wave_details) >= 2
    /\ Last(waves.wave_details).type = "corrective"

\* C8: a step of the loop that ends in an error, of whatever class and at
\* whatever step, leaves the program at the prompt; the loop is left only
\* from the prompt, by an input that is 'quit' once lower-cased and stripped,
\* and every such input leaves it.
C8_LoopResumes ==
    [][/\ error'.kind # "none" => pc' = "prompt"
       /\ (pc' \notin {"prompt", "fetch", "detect", "scan", "interpret",
                       "prompt2"})
          => /\ pc = "prompt"
             /\ pc' = "done"
             /\ Strip(Lower(raw_input')) = QUIT
       /\ (pc = "prompt" /\ error'.kind = "none"
                         /\ Strip(Lower(raw_input')) = QUIT)
          => pc' = "done"]_vars

\* back at the prompt after an error raised while the analysis was printed
C8_Witness ==
    /\ pc = "prompt"
    /\ error.kind = "OSError"
    /\ error.at = "interpret"
    /\ analysis # NoAnalysis

RECURSIVE Classified(_, _)
\* The segments of positions 1..k of series s, told from s alone: one per
\* change above the minor threshold, labelled by its place in its run.
Classified(s, k) ==
    IF k < 1 THEN <<>>
    ELSE LET before == Classified(s, k - 1)
             c == At(s, k)
             t == IF Gt(c, Zero) THEN "impulse" ELSE "corrective"
             same == before # <<>> /\ Last(before).type = t
             run == IF same THEN RunPos(before, Len(before)) + 1 ELSE 1
         IN  IF Gt(Abs(c), thresholds.minor)
             THEN Append(before, [type |-> t,
                                  magnitude |-> WaveMagnitude(c),
                                  start_index |-> k - 1,
                                  end_index |-> k,
                                  percentage_change |-> Times(c, 100),
                                  label |-> RunLabel(t, run)])
             ELSE before

\* C9: every scan starts with no wave type, counter 0 and empty lists,
\* whatever the scan before it left, and its result is a function of its
\* input series alone, so that two runs on one series give one WaveSet.
C9_RunsIndependent ==
    /\ (pc = "scan" /\ i = 1) =>
          /\ current_wave_type = "None"
          /\ wave_count = 0
          /\ waves = EmptyWaves
    /\ (pc = "scan" /\ i >= Len(series)) =>
          /\ waves.wave_details = Classified(series, Len(series) - 1)
          /\ waves.wave_labels =
                [j \in 1..Len(waves.wave_details) |-> waves.wave_details[j].label]

\* the end of a scan that follows a scan which ended inside a run
C9_Witness ==
    /\ pc = "scan"
    /\ i >= Len(series)
    /\ last_run.valid
    /\ last_run.current_wave_type = "corrective"
    /\ last_run.wave_count = 2
    /\ Len(waves.wave_details) = 2
    /\ waves.wave_details[1].label = <<"Impulse", "1">>

-----------------------------------------------------------------------------
(* Properties of the indicator columns, checked under SpecRsi *)

\* C10: the RSI has no value at the row positions 0 to 13 of the frame.
C10_NoRsiInFirst14Rows ==
    pc = "scan" =>
        \A k \in 0..(RsiWindow - 1) :
            k < Len(df) => IsNaN(At(df, k).rsi)

\* x = y for two finite numbers
NumEq(x, y) == IsFinite(x) /\ IsFinite(y) /\ x.n * y.d = y.n * x.d

\* some close of the window that ends at row position k lies below the close
\* of the row before it
FallsInWindow(rows, k) ==
    \E j \in (k - (RsiWindow - 1))..k :
        j >= 1 /\ Gt(At(rows, j - 1).close, At(rows, j).close)

\* C11: at every row whose 14-row window is full and holds no fall (average
\* loss 0) the RSI is 100, whether the window holds a rise or not.
C11_ZeroLossIsHundred ==
    pc = "scan" =>
        \A k \in 0..(Len(df) - 1) :
            (k + 1 >= RsiWindow /\ ~FallsInWindow(df, k))
            => NumEq(At(df, k).rsi, Frac(100, 1))

\* C12: every RSI value that is not missing is a finite number from 0 to 100.
C12_RsiInRange ==
    pc = "scan" =>
        \A k \in 1..Len(df) :
            LET r == df[k].rsi
            IN  ~IsNaN(r) => /\ IsFinite(r)
                             /\ r.n >= 0
                             /\ r.n <= 100 * r.d

\* a frame whose 14th row has RSI 100 (rises only) and whose 15th row, after
\* a fall, has an RSI strictly between 0 and 100
C12_Witness ==
    /\ pc = "scan"
    /\ Len(df) = 15
    /\ NumEq(At(df, 13).rsi, Frac(100, 1))
    /\ Gt(At(df, 14).rsi, Zero)
    /\ Gt(Frac(100, 1), At(df, 14).rsi)

-----------------------------------------------------------------------------
(* Properties of get_crypto_candles, checked under Spec *)

\* C13: once get_crypto_candles has built its frame from a series of n price
\* points, n - 1 >= 2 gives a frame of exactly n - 1 rows, the points 1..n-1
\* in order without point 0, and n - 1 < 2 gives a CryptoAnalysisError for
\* insufficient data and no frame.
C13_CandleCount ==
    (pc # "fetch" /\ Len(data) >= 1) =>
        IF Len(data) - 1 >= 2
        THEN /\ error.at # "fetch"
             /\ Len(df) = Len(data) - 1
             /\ \A k \in 1..Len(df) :
                   /\ df[k].timestamp = k
                   /\ df[k].close = Frac(data[k + 1], 1)
        ELSE /\ pc = "prompt"
             /\ error.kind = "CryptoAnalysisError"
             /\ error.at = "fetch"
             /\ error.message.cause \in {"Insufficient data points",
                                         "Insufficient processed data points"}
             /\ df = <<>>

\* four price points with a rise at the dropped one: three candles returned
C13_Witness ==
    /\ pc = "detect"
    /\ data = <<100, 112, 106, 101>>
    /\ Len(df) = 3
    /\ df[1].timestamp = 1
    /\ df[3].close = Frac(101, 1)

\* C14: whatever makes get_crypto_candles fail (a request that raises, a
\* response without prices after the fallback, a series of fewer than 3
\* points), main receives a CryptoAnalysisError whose message names the
\* identifier as passed in, and no frame; the mapped identifier and the one
\* found by the search appear in the requests only.
C14_FailuresNameOriginalCoin ==
    /\ error.at = "fetch" =>
          /\ error.kind = "CryptoAnalysisError"
          /\ error.message.text = "Error fetching data for"
          /\ error.message.coin = coin
          /\ error.message.coin = Strip(Lower(raw_input))
          /\ df = <<>>
    /\ (responses # <<>> /\ (Last(responses) # "prices" \/ Len(data) < 3))
          => /\ error.at = "fetch"
             /\ pc = "prompt"

\* 'velo' is mapped to 'velodrome-finance', the search finds 'eth', the
\* retry raises: the error names 'velo'
C14_Witness ==
    /\ error.at = "fetch"
    /\ coin = VELO
    /\ Len(requests) = 3
    /\ requests[1].id = VELODROME_FINANCE
    /\ requests[3].id = ETH
    /\ responses[3] = "raise"
    /\ error.message.coin = VELO

\* C16: at most three requests are made, in the order chart, search, chart;
\* the search follows only a first chart answer without a non-empty price
\* list, the second chart request only a search that found a coin; when the
\* second chart answer has no non-empty price list either, the call fails.
C16_FallbackIsOneShot ==
    LET n == Len(requests)
    IN  /\ n <= 3
        /\ Len(responses) = n
        /\ n >= 1 => requests[1].endpoint = "market_chart"
        /\ n >= 2 => /\ requests[2].endpoint = "search"
                     /\ responses[1] = "no_prices"
        /\ n >= 3 => /\ requests[3].endpoint = "market_chart"
                     /\ responses[2] = "coins"
        /\ (n = 3 /\ responses[3] # "prices")
              => /\ pc = "prompt"
                 /\ error.kind = "CryptoAnalysisError"
                 /\ error.at = "fetch"
        /\ (n = 2 /\ pc # "fetch") => error.at = "fetch"

\* chart without prices, search with a coin, chart without prices: failure
C16_Witness ==
    /\ pc = "prompt"
    /\ Len(requests) = 3
    /\ responses = <<"no_prices", "coins", "no_prices">>
    /\ error.at = "fetch"
    /\ error.message.cause = "Unable to fetch data"

-----------------------------------------------------------------------------
(* Further properties of identify_wave_pattern, checked under SpecScan *)

\* C15: a scan step whose change is missing or has abs(change) <= 0.02 (0 and
\* exactly 0.02 included) leaves the wave type, the run counter and the four
\* lists as they were.
C15_SkipLeavesStateAlone ==
    [][(/\ pc = "scan"
        /\ i < Len(series)
        /\ i' = i + 1
        /\ LET c == At(series, i)
           IN  IsNaN(c) \/ (c.d = 1000 /\ AbsInt(c.n) <= 20))
       => /\ current_wave_type' = current_wave_type
          /\ wave_count' = wave_count
          /\ waves'.wave_details = waves.wave_details
          /\ waves'.wave_labels = waves.wave_labels
          /\ waves'.impulse_waves = waves.impulse_waves
          /\ waves'.corrective_waves = waves.corrective_waves]_vars

\* an impulse, then exactly 0.02 and a missing value skipped: still one
\* segment, type impulse, counter 1
C15_Witness ==
    /\ pc = "scan"
    /\ i = 4
    /\ At(series, 1) = Frac(120, 1000)
    /\ At(series, 2) = Frac(20, 1000)
    /\ IsNaN(At(series, 3))
    /\ current_wave_type = "impulse"
    /\ wave_count = 1
    /\ Len(waves.wave_details) = 1
    /\ Len(waves.wave_labels) = 1

\* the segments of type t, in order
OfType(details, t) == SelectSeq(details, LAMBDA seg : seg.type = t)

\* C17: in every state of a scan impulse_waves and corrective_waves are the
\* impulse and the corrective segments of wave_details in the same order,
\* wave_labels lists the labels of wave_details, the two sub-lists together
\* are as long as wave_details, end_index grows strictly along wave_details
\* and start_index = end_index - 1.
C17_ListsConsistent ==
    LET d == waves.wave_details
    IN  /\ waves.impulse_waves = OfType(d, "impulse")
        /\ waves.corrective_waves = OfType(d, "corrective")
        /\ Len(waves.wave_labels) = Len(d)
        /\ \A j \in 1..Len(d) : waves.wave_labels[j] = d[j].label
        /\ Len(waves.impulse_waves) + Len(waves.corrective_waves) = Len(d)
        /\ \A j \in 1..Len(d) : d[j].start_index = d[j].end_index - 1
        /\ \A j \in 1..(Len(d) - 1) : d[j].end_index < d[j + 1].end_index

\* two impulses and two correctives interleaved, with skipped points between
C17_Witness ==
    /\ pc = "scan"
    /\ Len(waves.wave_details) = 4
    /\ waves.wave_details[1].type = "impulse"
    /\ waves.wave_details[2].type = "corrective"
    /\ waves.wave_details[3].type = "impulse"
    /\ waves.wave_details[4].type = "corrective"
    /\ Len(waves.impulse_waves) = 2
    /\ waves.wave_details[4].end_index - waves.wave_details[1].end_index > 3

\* C18: an impulse segment has a change above 0.02 (percentage_change > 2),
\* a corrective one a change below -0.02 (percentage_change < -2);
\* percentage_change is the change times 100; a change of 0 or a missing one
\* has no segment.
C18_TypeFollowsSign ==
    /\ \A j \in 1..Len(waves.wave_details) :
          LET seg == waves.wave_details[j]
              c == At(series, seg.end_index)
              pct == seg.percentage_change
          IN  /\ c.d = 1000
              /\ pct.d = c.d
              /\ pct.n = 100 * c.n
              /\ seg.type \in {"impulse", "corrective"}
              /\ seg.type = "impulse" => (c.n > 20 /\ Gt(pct, Frac(2, 1)))
              /\ seg.type = "corrective" => (c.n < -20 /\ Gt(Frac(-2, 1), pct))
    /\ \A k \in 1..(i - 1) :
          (k < Len(series) /\ (IsNaN(At(series, k)) \/ At(series, k).n = 0))
          => \A j \in 1..Len(waves.wave_details) :
                waves.wave_details[j].end_index # k

\* a rise of 3%, no change, a fall of 3%: an impulse and a corrective segment
C18_Witness ==
    /\ pc = "scan"
    /\ i = 4
    /\ At(series, 1) = Frac(30, 1000)
    /\ At(series, 2) = Frac(0, 1000)
    /\ At(series, 3) = Frac(-30, 1000)
    /\ Len(waves.wave_details) = 2
    /\ waves.wave_details[1].type = "impulse"
    /\ waves.wave_details[2].type = "corrective"
    /\ waves.wave_details[2].end_index = 3

\* C20: the interpretation of a scanned WaveSet is never MODERATE BUY: more
\* impulses than correctives means at least one impulse, hence a bullish
\* trend and STRONG BUY.
C20_NeverModerateBuy ==
    /\ analysis.recommendation # "MODERATE BUY"
    /\ (analysis # NoAnalysis
        /\ Len(waves.impulse_waves) > Len(waves.corrective_waves))
          => /\ analysis.dominant_trend = "bullish"
             /\ analysis.recommendation = "STRONG BUY"

\* a corrective segment first and last, more impulses between: STRONG BUY
C20_Witness ==
    /\ pc = "prompt2"
    /\ Len(waves.wave_details) >= 5
    /\ waves.wave_details[1].type = "corrective"
    /\ Last(waves.wave_details).type = "corrective"
    /\ Len(waves.impulse_waves) > Len(waves.corrective_waves)
    /\ analysis.recommendation = "STRONG BUY"

-----------------------------------------------------------------------------
(* Properties of the candles, checked under SpecCandles *)

\* x <= y for two finite numbers
Le(x, y) == IsFinite(x) /\ IsFinite(y) /\ x.n * y.d <= y.n * x.d

\* close[j] for j in [max(0, idx - 3), idx] of the provider series
WindowCloses(prices, idx) ==
    {At(prices, j) : j \in (IF idx - 3 > 0 THEN idx - 3 ELSE 0)..idx}

\* C19: the candle of original index idx >= 1 has open = close[idx - 1],
\* its own close, high = max and low = min of close over
\* [max(0, idx - 3), idx] of the provider series, the dropped point 0
\* included; so low <= open <= high and low <= close <= high.
C19_CandleFormula ==
    \A k \in 1..Len(df) :
        LET row == df[k]
            idx == row.timestamp
            w == WindowCloses(data, idx)
        IN  /\ idx >= 1
            /\ row.open = Frac(At(data, idx - 1), 1)
            /\ row.close = Frac(At(data, idx), 1)
            /\ \E h \in w : row.high = Frac(h, 1) /\ \A x \in w : x <= h
            /\ \E l \in w : row.low = Frac(l, 1) /\ \A x \in w : x >= l
            /\ Le(row.low, row.open)
            /\ Le(row.open, row.high)
            /\ Le(row.low, row.close)
            /\ Le(row.close, row.high)

\* six points, the highest the dropped one: it is the high of the first
\* candle and has left the window of the candle of index 4
C19_Witness ==
    /\ pc = "detect"
    /\ data = <<112, 100, 106, 100, 100, 100>>
    /\ Len(df) = 5
    /\ df[1].high = Frac(112, 1)
    /\ df[1].open = Frac(112, 1)
    /\ df[4].timestamp = 4
    /\ df[4].high = Frac(106, 1)

====
